---- MODULE Spec2Model ----
(***************************************************************************)
(* Model of the fixed-size element free list of the GNI provider,          *)
(* prov/gni/src/gnix_freelist.c: _gnix_sfl_init, _gnix_sfl_init_ts,        *)
(* __gnix_sfl_refill, _gnix_sfl_destroy, _gnix_sfe_alloc, _gnix_sfe_free.  *)
(*                                                                         *)
(* A slot is <<c, i>>: the i-th element (1..n) of the c-th chunk of the    *)
(* chunk list.  The free list (a dlist: insert at the tail, remove at the  *)
(* head) is a sequence of slots; the chunk list (an slist, insert at the   *)
(* tail) is the sequence of the sizes n of the chunks.                     *)
(***************************************************************************)
EXTENDS Integers, Sequences, FiniteSets, TLC

VARIABLES
    refill_size,      \* fl->refill_size
    growth_factor,    \* fl->growth_factor
    max_refill_size,  \* fl->max_refill_size
    freelist,         \* fl->freelist, head first
    chunks,           \* fl->chunks, head first: the n of each chunk
    ts,               \* fl->ts
    lock,             \* fl->lock: the thread holding it, or NoThread
    lockUsed,         \* a fastlock operation has been performed on fl->lock
    held,             \* held[t]: the slots caller t got from alloc and has not freed
    pc,               \* pc[t]: where thread t is inside _gnix_sfe_alloc/_gnix_sfe_free
    de,               \* de[t]: the local `de` of _gnix_sfe_alloc, the `e` of
                      \* _gnix_sfe_free, while thread t is inside the call
    ret,              \* ret[t]: the local `ret` of _gnix_sfe_alloc, likewise
    args,             \* the arguments init was called with
    hist,             \* the last calls that returned, oldest first
    scen,             \* the calls since init, while they follow a scenario
    lockState,        \* fl->lock is "none" (zeroed, never initialised), "stale"
                      \* (left by an earlier pool in the same structure),
                      \* "init" (after fastlock_init) or "destroyed" (after
                      \* fastlock_destroy of the lock this pool initialised)
    live,             \* the pool is between init and the call of destroy
    freed             \* the chunks given to free(), in the order freed: the n
                      \* of each

vars == <<refill_size, growth_factor, max_refill_size, freelist, chunks, ts,
          lock, lockUsed, held, pc, de, ret, args, hist, scen,
          lockState, live, freed>>

\* what only init and destroy change
lvars == <<lockState, live, freed>>

----------------------------------------------------------------------------
(* Bounds of the model *)

\* number of callers / threads
NThreads == 2
\* callers never hold more than this many slots at a time, all together
MaxHeld == 3

\* the arguments of init: 0 asks for the default
InitSizes == {0, 1}
RefillSizes == {0, 2}
GrowthFactors == {0, 2}
MaxRefillSizes == {0, 1, 3}
\* the refill sizes of the pools used by concurrent threads
TsRefillSizes == {1}

Threads == 1..NThreads
NoThread == 0
NoSlot == <<0, 0>>

----------------------------------------------------------------------------
(* Constants of the program *)

\* rdma/fi_errno.h
FI_SUCCESS == 0
FI_ENOMEM == 12
FI_EAGAIN == 11

\* gnix_freelist.h: the defaults that replace an argument of 0.  The header
\* is not among the sources; the specification gives the growth factor (1,
\* constant-size refills) and only says of the two sizes that they are
\* positive baselines.
GNIX_SFL_INIT_SIZE == 2
GNIX_SFL_INIT_REFILL_SIZE == 1
GNIX_SFL_GROWTH_FACTOR == 1

----------------------------------------------------------------------------
(* C int arithmetic *)

\* An int is 32 bits wide, two's complement.  A product is computed on
\* 16-bit halves, so that no intermediate value leaves the int range.
Lo16(x) == x % 65536
Hi16(x) == (x \div 65536) % 65536

\* the low and the high half of x * y, for x, y in 0..65535
MulLo16(x, y) == ((x % 256) * y + (((x \div 256) * y) % 256) * 256) % 65536
MulHi16(x, y) ==
    ((x % 256) * y + (((x \div 256) * y) % 256) * 256) \div 65536
    + ((x \div 256) * y) \div 256

\* the int whose halves are hi and lo
Int32(hi, lo) == (IF hi >= 32768 THEN hi - 65536 ELSE hi) * 65536 + lo

\* fl->refill_size *= fl->growth_factor: the low 32 bits of a * b
MulInt(a, b) ==
    Int32((MulHi16(Lo16(a), Lo16(b)) + MulLo16(Hi16(a), Lo16(b))
             + MulLo16(Lo16(a), Hi16(b))) % 65536,
          MulLo16(Lo16(a), Lo16(b)))

----------------------------------------------------------------------------
(* __gnix_sfl_refill(fl, n), when calloc succeeds *)

\* faulty variant: the loop stops one element short
ChunkSlots_OneShort(c, n) == [i \in 1..(n - 1) |-> <<c, i>>]

\* the n elements after the chunk's first one, in block order
ChunkSlots(c, n) == [i \in 1..n |-> <<c, i>>]

\* faulty variant: the new chunk replaces the chunk list instead of joining it
RefillChunks_Overwrite(ch, n) == <<n>>

\* line 79: slist_insert_tail(elems, &fl->chunks)
RefillChunks(ch, n) == Append(ch, n)

\* lines 84-88: dlist_insert_tail of each element, from the first to the n-th
RefillFreelist(fr, ch, n) == fr \o ChunkSlots(Len(ch) + 1, n)

----------------------------------------------------------------------------
(* _gnix_sfl_init *)

FillSize(init_size) ==
    IF init_size # 0 THEN init_size ELSE GNIX_SFL_INIT_SIZE

InitRefillSize(r) ==
    IF r # 0 THEN r ELSE GNIX_SFL_INIT_REFILL_SIZE

InitGrowthFactor(g) ==
    IF g # 0 THEN g ELSE GNIX_SFL_GROWTH_FACTOR

\* faulty variant: the default is the baseline size, not the size asked for
InitMaxRefillSize_Baseline(m, init_size) ==
    IF m # 0 THEN m ELSE GNIX_SFL_INIT_SIZE

InitMaxRefillSize(m, init_size) ==
    IF m # 0 THEN m ELSE FillSize(init_size)

\* the pool fields after a successful _gnix_sfl_init
SflInit(init_size, r, g, m) ==
    /\ args = [init_size |-> init_size, refill_size |-> r,
               growth_factor |-> g, max_refill_size |-> m]
    /\ refill_size = InitRefillSize(r)
    /\ growth_factor = InitGrowthFactor(g)
    /\ max_refill_size = InitMaxRefillSize(m, init_size)
    /\ chunks = RefillChunks(<<>>, FillSize(init_size))
    /\ freelist = RefillFreelist(<<>>, <<>>, FillSize(init_size))

\* what the callers start with
CallersInit ==
    /\ held = [t \in Threads |-> {}]
    /\ pc = [t \in Threads |-> "idle"]
    /\ de = [t \in Threads |-> NoSlot]
    /\ ret = [t \in Threads |-> FI_SUCCESS]
    /\ hist = <<>>
    /\ scen = [on |-> TRUE, tr |-> <<>>]
    /\ live = TRUE
    /\ freed = <<>>

\* _gnix_sfl_init, on a pool structure that was zeroed (line 119 reads
\* fl->chunks before it is initialised): fl->ts and fl->lock are left as they were
Init ==
    /\ \E init_size \in InitSizes, r \in RefillSizes,
          g \in GrowthFactors, m \in MaxRefillSizes :
            SflInit(init_size, r, g, m)
    /\ ts = 0
    /\ lock = NoThread
    /\ lockUsed = FALSE
    /\ lockState = "none"
    /\ CallersInit

\* _gnix_sfl_init_ts: fl->ts = 1; fastlock_init(&fl->lock)
InitTs ==
    /\ \E init_size \in InitSizes, r \in TsRefillSizes,
          g \in GrowthFactors, m \in MaxRefillSizes :
            SflInit(init_size, r, g, m)
    /\ ts = 1
    /\ lock = NoThread
    /\ lockUsed = FALSE
    /\ lockState = "init"
    /\ CallersInit

----------------------------------------------------------------------------
(* _gnix_sfe_alloc *)

\* lines 177-183: the refill size after a refill that succeeded
GrowRefillSize(rs, gf, mx) ==
    IF rs < mx
    THEN LET ns == MulInt(rs, gf)
         IN  IF ns >= mx THEN mx ELSE ns
    ELSE rs

SetOf(s) == {s[i] : i \in 1..Len(s)}
Last(h) == h[Len(h)]

AllHeld == UNION {held[t] : t \in Threads}

\* the record of a call that returned
Event(o, s, r, n, c) ==
    [op |-> o, slot |-> s, ret |-> r, flen |-> n, calloc |-> c]

\* the last two calls
Push(h, e) == IF h = <<>> THEN <<e>> ELSE <<Last(h), e>>

\* The scenarios followed from init on, for a pool of initial size k:
\*   k allocates, then one more allocate;
\*   k allocates, the release of their k slots in the order allocated,
\*   then k allocates.
OnScenario(tr, k) ==
    /\ Len(tr) <= 3 * k
    /\ \A i \in 1..Len(tr) :
        IF i <= k \/ i > 2 * k THEN tr[i].op = "alloc"
        ELSE \/ tr[i].op = "free" /\ tr[i].slot = tr[i - k].slot
             \/ tr[i].op = "alloc" /\ i = k + 1 /\ Len(tr) = k + 1

Follow(sc, e) ==
    IF sc.on /\ OnScenario(Append(sc.tr, e), FillSize(args.init_size))
    THEN [on |-> TRUE, tr |-> Append(sc.tr, e)]
    ELSE [on |-> FALSE, tr |-> <<>>]

\* faulty variant: the pool refills while one slot is still free
dlist_empty_OneLeft(fr) == Len(fr) <= 1

\* lines 173, 185: dlist_empty(&fl->freelist)
dlist_empty(fr) == fr = <<>>

\* the outcomes of calloc that an allocate can meet
CallocOutcomes(fr) == IF dlist_empty(fr) THEN {"ok", "fail"} ELSE {"none"}

\* lines 173-176: the free list after the refill, if one was needed
AllocFreelist(fr, ch, rs, c) ==
    IF c = "ok" THEN RefillFreelist(fr, ch, rs) ELSE fr

\* lines 173-176: the chunk list after the refill, if one was needed
AllocChunks(ch, rs, c) ==
    IF c = "ok" THEN RefillChunks(ch, rs) ELSE ch

\* faulty variant: the refill size grows although the refill failed
AllocRefillSize_GrowAlways(rs, gf, mx, c) ==
    IF c = "none" THEN rs ELSE GrowRefillSize(rs, gf, mx)

\* lines 174-183: the refill size after the refill, if one was needed
AllocRefillSize(rs, gf, mx, c) ==
    IF c = "ok" THEN GrowRefillSize(rs, gf, mx) ELSE rs

\* lines 174-190: ret, given the free list fr1 after the refill
AllocRet(fr1, c) ==
    IF c = "fail" THEN -FI_ENOMEM
    ELSE IF dlist_empty(fr1) THEN -FI_EAGAIN
    ELSE FI_SUCCESS

\* faulty variant: the slot at the tail is taken
AllocHead_Last(fr) == IF fr = <<>> THEN NoSlot ELSE fr[Len(fr)]

\* line 192: de = fl->freelist.next (the list head itself when the list is empty)
AllocHead(fr) == IF fr = <<>> THEN NoSlot ELSE Head(fr)

\* faulty variant: the slot is handed out but stays linked
dlist_remove_init_NoUnlink(fr, d) == fr

\* line 193: dlist_remove_init(de)
dlist_remove_init(fr, d) == SelectSeq(fr, LAMBDA x : x # d)

\* faulty variant: the released slot is inserted at the head
dlist_insert_tail_AtHead(fr, e) == <<e>> \o fr

\* line 212: dlist_insert_tail(e, &fl->freelist)
dlist_insert_tail(fr, e) == Append(fr, e)

\* lines 170-171 and 197-198, 209-210 and 213-214: a call touches the lock
\* if and only if fl->ts is set
LockTouched == lockUsed \/ ts # 0

----------------------------------------------------------------------------
(* Single-threaded use: the callers take turns, each call runs to its end *)

\* _gnix_sfe_alloc(&e, fl) by caller t
SfeAlloc(t) ==
    /\ pc[t] = "idle"
    /\ Cardinality(AllHeld) < MaxHeld
    /\ \E c \in CallocOutcomes(freelist) :
        LET fr1 == AllocFreelist(freelist, chunks, refill_size, c)
            r   == AllocRet(fr1, c)
            d   == IF r = FI_SUCCESS THEN AllocHead(fr1) ELSE NoSlot
        IN  /\ chunks' = AllocChunks(chunks, refill_size, c)
            /\ refill_size' =
                 AllocRefillSize(refill_size, growth_factor, max_refill_size, c)
            /\ freelist' = IF r = FI_SUCCESS THEN dlist_remove_init(fr1, d) ELSE fr1
            /\ held' = IF r = FI_SUCCESS
                       THEN [held EXCEPT ![t] = @ \cup {d}]
                       ELSE held
            /\ hist' = Push(hist, Event("alloc", d, r, Len(freelist), c))
            /\ scen' = Follow(scen, Event("alloc", d, r, Len(freelist), c))
    /\ lockUsed' = LockTouched
    /\ UNCHANGED <<growth_factor, max_refill_size, ts, lock, pc, de, ret, args>>
    /\ UNCHANGED lvars

\* _gnix_sfe_free(e, fl) by caller t, of a slot e it holds
SfeFree(t, e) ==
    /\ pc[t] = "idle"
    /\ e \in held[t]
    /\ freelist' = dlist_insert_tail(freelist, e)
    /\ held' = [held EXCEPT ![t] = @ \ {e}]
    /\ hist' = Push(hist, Event("free", e, FI_SUCCESS, Len(freelist), "none"))
    /\ scen' = Follow(scen, Event("free", e, FI_SUCCESS, Len(freelist), "none"))
    /\ lockUsed' = LockTouched
    /\ UNCHANGED <<refill_size, growth_factor, max_refill_size, chunks, ts,
                   lock, pc, de, ret, args>>
    /\ UNCHANGED lvars

Next ==
    \/ \E t \in Threads : SfeAlloc(t)
    \/ \E t \in Threads : \E e \in held[t] : SfeFree(t, e)

Spec == Init /\ [][Next]_vars

----------------------------------------------------------------------------
(* Thread-safe use: the threads call concurrently; a call is a sequence of  *)
(* steps, the lock operations among them                                    *)

InAlloc == {t \in Threads : pc[t] \in {"a_acquire", "a_check", "a_read",
                                       "a_remove", "a_release"}}

\* faulty variant: the lock is given only while a slot is free
CanAcquire_WaitForSlot == lock = NoThread /\ freelist # <<>>

\* faulty variant: the lock is taken without waiting for its holder
CanAcquire_NoWait == TRUE

\* fastlock_acquire(&fl->lock) returns only when no thread holds the lock
CanAcquire == lock = NoThread

\* lines 170-171, 209-210: if (fl->ts) fastlock_acquire(&fl->lock)
Acquire(t) ==
    IF ts # 0
    THEN CanAcquire /\ lock' = t /\ lockUsed' = TRUE
    ELSE UNCHANGED <<lock, lockUsed>>

\* faulty variant: the call returns without releasing the lock
Release_Keep(t) == UNCHANGED <<lock, lockUsed>>

\* lines 197-198, 213-214: if (fl->ts) fastlock_release(&fl->lock)
Release(t) ==
    IF ts # 0
    THEN lock' = NoThread /\ lockUsed' = TRUE
    ELSE UNCHANGED <<lock, lockUsed>>

\* thread t calls _gnix_sfe_alloc (lines 163-168)
AllocCall(t) ==
    /\ pc[t] = "idle"
    /\ Cardinality(AllHeld) + Cardinality(InAlloc) < MaxHeld
    /\ pc' = [pc EXCEPT ![t] = "a_acquire"]
    /\ UNCHANGED <<refill_size, growth_factor, max_refill_size, freelist,
                   chunks, ts, lock, lockUsed, held, de, ret, args, hist,
                   scen>>
    /\ UNCHANGED lvars

\* lines 170-171
AllocAcquire(t) ==
    /\ pc[t] = "a_acquire"
    /\ Acquire(t)
    /\ pc' = [pc EXCEPT ![t] = "a_check"]
    /\ UNCHANGED <<refill_size, growth_factor, max_refill_size, freelist,
                   chunks, ts, held, de, ret, args, hist,
                   scen>>
    /\ UNCHANGED lvars

\* lines 173-190
AllocCheck(t) ==
    /\ pc[t] = "a_check"
    /\ \E c \in CallocOutcomes(freelist) :
        LET fr1 == AllocFreelist(freelist, chunks, refill_size, c)
            r   == AllocRet(fr1, c)
        IN  /\ chunks' = AllocChunks(chunks, refill_size, c)
            /\ refill_size' =
                 AllocRefillSize(refill_size, growth_factor, max_refill_size, c)
            /\ freelist' = fr1
            /\ ret' = [ret EXCEPT ![t] = r]
            /\ pc' = [pc EXCEPT ![t] =
                         IF r = FI_SUCCESS THEN "a_read" ELSE "a_release"]
    /\ UNCHANGED <<growth_factor, max_refill_size, ts, lock, lockUsed, held,
                   de, args, hist,
                   scen>>
    /\ UNCHANGED lvars

\* line 192
AllocRead(t) ==
    /\ pc[t] = "a_read"
    /\ de' = [de EXCEPT ![t] = AllocHead(freelist)]
    /\ pc' = [pc EXCEPT ![t] = "a_remove"]
    /\ UNCHANGED <<refill_size, growth_factor, max_refill_size, freelist,
                   chunks, ts, lock, lockUsed, held, ret, args, hist,
                   scen>>
    /\ UNCHANGED lvars

\* lines 193-195: the slot is unlinked and handed to the caller
AllocTake(t) ==
    /\ pc[t] = "a_remove"
    /\ freelist' = dlist_remove_init(freelist, de[t])
    /\ held' = [held EXCEPT ![t] = @ \cup {de[t]}]
    /\ pc' = [pc EXCEPT ![t] = "a_release"]
    /\ UNCHANGED <<refill_size, growth_factor, max_refill_size, chunks, ts,
                   lock, lockUsed, de, ret, args, hist,
                   scen>>
    /\ UNCHANGED lvars

\* lines 196-199
AllocReturn(t) ==
    /\ pc[t] = "a_release"
    /\ Release(t)
    /\ pc' = [pc EXCEPT ![t] = "idle"]
    /\ de' = [de EXCEPT ![t] = NoSlot]
    /\ ret' = [ret EXCEPT ![t] = FI_SUCCESS]
    /\ UNCHANGED <<refill_size, growth_factor, max_refill_size, freelist,
                   chunks, ts, held, args, hist,
                   scen>>
    /\ UNCHANGED lvars

\* thread t calls _gnix_sfe_free on a slot it holds (lines 202-207)
FreeCall(t, e) ==
    /\ pc[t] = "idle"
    /\ e \in held[t]
    /\ de' = [de EXCEPT ![t] = e]
    /\ pc' = [pc EXCEPT ![t] = "f_acquire"]
    /\ UNCHANGED <<refill_size, growth_factor, max_refill_size, freelist,
                   chunks, ts, lock, lockUsed, held, ret, args, hist,
                   scen>>
    /\ UNCHANGED lvars

\* lines 209-210
FreeAcquire(t) ==
    /\ pc[t] = "f_acquire"
    /\ Acquire(t)
    /\ pc' = [pc EXCEPT ![t] = "f_insert"]
    /\ UNCHANGED <<refill_size, growth_factor, max_refill_size, freelist,
                   chunks, ts, held, de, ret, args, hist,
                   scen>>
    /\ UNCHANGED lvars

\* lines 211-212: the slot goes from the caller to the free list
FreeInsert(t) ==
    /\ pc[t] = "f_insert"
    /\ freelist' = dlist_insert_tail(freelist, de[t])
    /\ held' = [held EXCEPT ![t] = @ \ {de[t]}]
    /\ pc' = [pc EXCEPT ![t] = "f_release"]
    /\ UNCHANGED <<refill_size, growth_factor, max_refill_size, chunks, ts,
                   lock, lockUsed, de, ret, args, hist,
                   scen>>
    /\ UNCHANGED lvars

\* lines 213-215
FreeReturn(t) ==
    /\ pc[t] = "f_release"
    /\ Release(t)
    /\ pc' = [pc EXCEPT ![t] = "idle"]
    /\ de' = [de EXCEPT ![t] = NoSlot]
    /\ UNCHANGED <<refill_size, growth_factor, max_refill_size, freelist,
                   chunks, ts, held, ret, args, hist,
                   scen>>
    /\ UNCHANGED lvars

NextTs ==
    \/ \E t \in Threads : AllocCall(t)
    \/ \E t \in Threads : AllocAcquire(t)
    \/ \E t \in Threads : AllocCheck(t)
    \/ \E t \in Threads : AllocRead(t)
    \/ \E t \in Threads : AllocTake(t)
    \/ \E t \in Threads : AllocReturn(t)
    \/ \E t \in Threads : \E e \in held[t] : FreeCall(t, e)
    \/ \E t \in Threads : FreeAcquire(t)
    \/ \E t \in Threads : FreeInsert(t)
    \/ \E t \in Threads : FreeReturn(t)

SpecTs == InitTs /\ [][NextTs]_vars

----------------------------------------------------------------------------
(* Thread-safe use under fair scheduling and a fair lock *)

\* the arguments of init of the pools used under fairness
FairInitSizes == {1}
FairRefillSizes == {1}
FairGrowthFactors == {2}
FairMaxRefillSizes == {3}

InitFair ==
    /\ \E init_size \in FairInitSizes, r \in FairRefillSizes,
          g \in FairGrowthFactors, m \in FairMaxRefillSizes :
            SflInit(init_size, r, g, m)
    /\ ts = 1
    /\ lock = NoThread
    /\ lockUsed = FALSE
    /\ lockState = "init"
    /\ CallersInit

\* the steps of thread t inside a call that do not wait for the lock
Running(t) ==
    \/ AllocCheck(t)
    \/ AllocRead(t)
    \/ AllocTake(t)
    \/ AllocReturn(t)
    \/ FreeInsert(t)
    \/ FreeReturn(t)

\* fastlock_acquire by thread t
Waiting(t) == AllocAcquire(t) \/ FreeAcquire(t)

\* a thread inside a call goes on running; a thread waiting for a lock that
\* is free again and again gets it
Fairness ==
    \A t \in Threads : WF_vars(Running(t)) /\ SF_vars(Waiting(t))

SpecTsFair == InitFair /\ [][NextTs]_vars /\ Fairness

----------------------------------------------------------------------------
(* The life of a pool: init of either kind, calls, _gnix_sfl_destroy *)

\* what fl->ts holds when init is called: 0 in a structure that was zeroed,
\* 1 in a structure that was a thread-safe pool before and was destroyed
PriorTs == {0, 1}

\* the arguments of init of the pools that are followed up to their destroy
LifeInitSizes == {1}
LifeRefillSizes == {1, 2}

\* _gnix_sfl_init and _gnix_sfl_init_ts on such a structure: only
\* _gnix_sfl_init_ts writes fl->ts and fl->lock (lines 139-140)
InitLife ==
    /\ \E init_size \in LifeInitSizes, r \in LifeRefillSizes :
            SflInit(init_size, r, 0, 0)
    /\ \/ ts = 1 /\ lockState = "init"
       \/ \E p \in PriorTs :
            ts = p /\ lockState = (IF p = 0 THEN "none" ELSE "stale")
    /\ lock = NoThread
    /\ lockUsed = FALSE
    /\ CallersInit

\* the callers of a pool made by _gnix_sfl_init take turns, those of a pool
\* made by _gnix_sfl_init_ts need not
MayCall(t) ==
    /\ live
    /\ \A u \in Threads : pc[u] # "aborted"
    /\ lockState = "init" \/ \A u \in Threads : pc[u] = "idle"

LifeAllocCall(t) == MayCall(t) /\ AllocCall(t)

LifeFreeCall(t, e) == MayCall(t) /\ FreeCall(t, e)

\* fastlock_acquire on a lock that this pool did not initialise may also
\* return without having taken the lock
AcquireFails(t, from, to) ==
    /\ pc[t] = from
    /\ ts # 0 /\ lockState # "init"
    /\ lockUsed' = TRUE
    /\ pc' = [pc EXCEPT ![t] = to]
    /\ UNCHANGED <<refill_size, growth_factor, max_refill_size, freelist,
                   chunks, ts, lock, held, de, ret, args, hist, scen>>
    /\ UNCHANGED lvars

\* faulty variant: the loop ends while a chunk is left
slist_empty_OneLeft(ch) == Len(ch) <= 1

\* lines 153-155: slist_remove_head(&fl->chunks) returns NULL
slist_empty(ch) == ch = <<>>

\* line 153, 155: the chunk list after slist_remove_head
slist_remove_head(ch) == Tail(ch)

\* _gnix_sfl_destroy(fl) is called by thread t, while no call is under way
\* (lines 147-151)
DestroyCall(t) ==
    /\ live
    /\ \A u \in Threads : pc[u] = "idle"
    /\ live' = FALSE
    /\ pc' = [pc EXCEPT ![t] = "d_loop"]
    /\ UNCHANGED <<refill_size, growth_factor, max_refill_size, freelist,
                   chunks, ts, lock, lockUsed, held, de, ret, args, hist,
                   scen, lockState, freed>>

\* lines 153-157: one turn of the loop, free(chunk) of the head removed
DestroyFree(t) ==
    /\ pc[t] = "d_loop"
    /\ ~slist_empty(chunks)
    /\ freed' = Append(freed, Head(chunks))
    /\ chunks' = slist_remove_head(chunks)
    /\ UNCHANGED <<refill_size, growth_factor, max_refill_size, freelist,
                   ts, lock, lockUsed, held, pc, de, ret, args, hist,
                   scen, lockState, live>>

\* lines 154, 159-161: the loop ends; if (fl->ts) fastlock_destroy(&fl->lock)
DestroyReturn(t) ==
    /\ pc[t] = "d_loop"
    /\ slist_empty(chunks)
    /\ IF ts # 0
       THEN /\ lockState' = (IF lockState = "init" THEN "destroyed" ELSE lockState)
            /\ lockUsed' = TRUE
       ELSE UNCHANGED <<lockState, lockUsed>>
    /\ pc' = [pc EXCEPT ![t] = "idle"]
    /\ UNCHANGED <<refill_size, growth_factor, max_refill_size, freelist,
                   chunks, ts, lock, held, de, ret, args, hist,
                   scen, live, freed>>

NextLife ==
    \/ \E t \in Threads : LifeAllocCall(t)
    \/ \E t \in Threads : AllocAcquire(t)
    \/ \E t \in Threads : AcquireFails(t, "a_acquire", "a_check")
    \/ \E t \in Threads : AllocCheck(t)
    \/ \E t \in Threads : AllocRead(t)
    \/ \E t \in Threads : AllocTake(t)
    \/ \E t \in Threads : AllocReturn(t)
    \/ \E t \in Threads : \E e \in held[t] : LifeFreeCall(t, e)
    \/ \E t \in Threads : FreeAcquire(t)
    \/ \E t \in Threads : AcquireFails(t, "f_acquire", "f_insert")
    \/ \E t \in Threads : FreeInsert(t)
    \/ \E t \in Threads : FreeReturn(t)
    \/ \E t \in Threads : DestroyCall(t)
    \/ \E t \in Threads : DestroyFree(t)
    \/ \E t \in Threads : DestroyReturn(t)

SpecLife == InitLife /\ [][NextLife]_vars

----------------------------------------------------------------------------
(* Single-threaded use of pools whose refill size leaves the int range or   *)
(* starts above max_refill_size                                             *)

\* the largest int
INT_MAX == 2147483647

\* the one caller holds at most this many slots
OvfMaxHeld == 6

\* the pool grows to at most this many chunks
OvfMaxChunks == 4

\* the one caller
Caller == 1

\* init_size of these pools, and their refill_size, growth_factor,
\* max_refill_size: 4 * 2^30 = 2^32; 2 * (2^31 - 1) = 2^32 - 2;
\* 3 * 1431655765 = 2^32 - 1; 2 * 3 > 4; 2 * 2 < 5; 3 > 2
OvfInitSize == 1
OvfPolicies ==
    {<<4, 1073741824, 16>>, <<2, 2147483647, 16>>,
     <<3, 1431655765, 2147483647>>, <<2, 3, 4>>, <<2, 2, 5>>, <<3, 2, 2>>}

InitOvf ==
    /\ \E p \in OvfPolicies : SflInit(OvfInitSize, p[1], p[2], p[3])
    /\ ts = 0
    /\ lock = NoThread
    /\ lockUsed = FALSE
    /\ lockState = "none"
    /\ CallersInit

\* line 65: assert(n > 0) stops the program unless NDEBUG is defined
RefillAsserts(n) == n > 0

\* line 72: calloc((n+1), fl->elem_size).  n + 1 is converted to size_t: a
\* negative n + 1 asks for more than there is and calloc returns NULL;
\* calloc of 0 elements may return NULL or a block
CallocOutcomesOf(fr, n) ==
    IF ~dlist_empty(fr) THEN {"none"}
    ELSE IF n + 1 >= 0 THEN {"ok", "fail"} ELSE {"fail"}

\* _gnix_sfe_alloc(&e, fl) by the caller, when assert(n > 0) holds or is
\* compiled out
OvfAlloc(t) ==
    /\ t = Caller
    /\ pc[t] = "idle"
    /\ Cardinality(AllHeld) < OvfMaxHeld
    /\ dlist_empty(freelist) => Len(chunks) < OvfMaxChunks
    /\ \E c \in CallocOutcomesOf(freelist, refill_size) :
        LET fr1 == AllocFreelist(freelist, chunks, refill_size, c)
            r   == AllocRet(fr1, c)
            d   == IF r = FI_SUCCESS THEN AllocHead(fr1) ELSE NoSlot
        IN  /\ chunks' = AllocChunks(chunks, refill_size, c)
            /\ refill_size' =
                 AllocRefillSize(refill_size, growth_factor, max_refill_size, c)
            /\ freelist' = IF r = FI_SUCCESS THEN dlist_remove_init(fr1, d) ELSE fr1
            /\ held' = IF r = FI_SUCCESS
                       THEN [held EXCEPT ![t] = @ \cup {d}]
                       ELSE held
            /\ hist' = Push(hist, Event("alloc", d, r, Len(freelist), c))
            /\ scen' = Follow(scen, Event("alloc", d, r, Len(freelist), c))
    /\ UNCHANGED <<growth_factor, max_refill_size, ts, lock, lockUsed, pc, de,
                   ret, args>>
    /\ UNCHANGED lvars

\* _gnix_sfe_alloc(&e, fl) by the caller, when assert(n > 0) is compiled in
\* and fails: the program is aborted
OvfAbort(t) ==
    /\ t = Caller
    /\ pc[t] = "idle"
    /\ Cardinality(AllHeld) < OvfMaxHeld
    /\ dlist_empty(freelist)
    /\ ~RefillAsserts(refill_size)
    /\ pc' = [pc EXCEPT ![t] = "aborted"]
    /\ UNCHANGED <<refill_size, growth_factor, max_refill_size, freelist,
                   chunks, ts, lock, lockUsed, held, de, ret, args, hist,
                   scen>>
    /\ UNCHANGED lvars

\* _gnix_sfe_free(e, fl) by the caller
OvfFree(t, e) == t = Caller /\ SfeFree(t, e)

NextOvf ==
    \/ \E t \in Threads : OvfAlloc(t)
    \/ \E t \in Threads : OvfAbort(t)
    \/ \E t \in Threads : \E e \in held[t] : OvfFree(t, e)

SpecOvf == InitOvf /\ [][NextOvf]_vars

----------------------------------------------------------------------------
(* Thread-safe use of a pool whose refill size wraps to 0.  A refill of     *)
(* size 0 is done where NDEBUG is defined; where assert(n > 0) is compiled  *)
(* in, it aborts the process while the thread holds the lock.               *)

\* refill_size, growth_factor, max_refill_size: 4 * 2^30 = 2^32
TsOvfPolicy == <<4, 1073741824, 16>>

InitTsOvf ==
    /\ SflInit(OvfInitSize, TsOvfPolicy[1], TsOvfPolicy[2], TsOvfPolicy[3])
    /\ ts = 1
    /\ lock = NoThread
    /\ lockUsed = FALSE
    /\ lockState = "init"
    /\ CallersInit

\* the process runs: no thread was stopped by a failing assert
OvfRunning == \A u \in Threads : pc[u] # "aborted"

\* thread t calls _gnix_sfe_alloc (lines 163-168)
OvfAllocCall(t) ==
    /\ OvfRunning
    /\ pc[t] = "idle"
    /\ Cardinality(AllHeld) + Cardinality(InAlloc) < OvfMaxHeld
    /\ Len(chunks) + Cardinality(InAlloc) < OvfMaxChunks
    /\ pc' = [pc EXCEPT ![t] = "a_acquire"]
    /\ UNCHANGED <<refill_size, growth_factor, max_refill_size, freelist,
                   chunks, ts, lock, lockUsed, held, de, ret, args, hist,
                   scen>>
    /\ UNCHANGED lvars

\* lines 173-174 and 65, where assert(n > 0) is compiled in and fails: the
\* thread holds the lock, found the free list empty and called
\* __gnix_sfl_refill(fl, fl->refill_size); the process is aborted before
\* calloc, the lock still held
OvfAbortLocked(t) ==
    /\ pc[t] = "a_check"
    /\ dlist_empty(freelist)
    /\ ~RefillAsserts(refill_size)
    /\ pc' = [pc EXCEPT ![t] = "aborted"]
    /\ UNCHANGED <<refill_size, growth_factor, max_refill_size, freelist,
                   chunks, ts, lock, lockUsed, held, de, ret, args, hist,
                   scen>>
    /\ UNCHANGED lvars

\* thread t calls _gnix_sfe_free(e, fl) (lines 202-207)
OvfFreeCall(t, e) == OvfRunning /\ FreeCall(t, e)

NextTsOvf ==
    \/ \E t \in Threads : OvfAllocCall(t)
    \/ \E t \in Threads : AllocAcquire(t)
    \/ \E t \in Threads : AllocCheck(t)
    \/ \E t \in Threads : OvfAbortLocked(t)
    \/ \E t \in Threads : AllocRead(t)
    \/ \E t \in Threads : AllocTake(t)
    \/ \E t \in Threads : AllocReturn(t)
    \/ \E t \in Threads : \E e \in held[t] : OvfFreeCall(t, e)
    \/ \E t \in Threads : FreeAcquire(t)
    \/ \E t \in Threads : FreeInsert(t)
    \/ \E t \in Threads : FreeReturn(t)

SpecTsOvf == InitTsOvf /\ [][NextTsOvf]_vars

----------------------------------------------------------------------------
(* Vocabulary of the properties *)

\* every slot a refill created
AllSlots == UNION {{<<c, i>> : i \in 1..chunks[c]} : c \in 1..Len(chunks)}

FreeCount(s) == Cardinality({i \in 1..Len(freelist) : freelist[i] = s})
HolderCount(s) == Cardinality({t \in Threads : s \in held[t]})

Min(a, b) == IF a <= b THEN a ELSE b

RECURSIVE SumSeq(_)
SumSeq(q) == IF q = <<>> THEN 0 ELSE Head(q) + SumSeq(Tail(q))

\* the step is the return of a call of _gnix_sfe_alloc ("alloc") or of
\* _gnix_sfe_free ("free")
Returned(o) == hist' # hist /\ hist'[Len(hist')].op = o

\* the arguments of init with 0 replaced by the default
ResolvedK == IF args.init_size # 0 THEN args.init_size ELSE GNIX_SFL_INIT_SIZE
ResolvedR ==
    IF args.refill_size # 0 THEN args.refill_size ELSE GNIX_SFL_INIT_REFILL_SIZE
ResolvedG ==
    IF args.growth_factor # 0 THEN args.growth_factor ELSE GNIX_SFL_GROWTH_FACTOR
ResolvedMax ==
    IF args.max_refill_size # 0 THEN args.max_refill_size ELSE ResolvedK

\* no thread is inside a call and no caller holds a slot
Quiescent == \A t \in Threads : pc[t] = "idle" /\ held[t] = {}

----------------------------------------------------------------------------
(* C1: in every state reached by allocates and releases of slots the       *)
(* callers hold, every slot created by a refill is either in the free list *)
(* exactly once or held by exactly one caller, never both, never held by   *)
(* two callers; the slot an allocate just returned is not in the free list *)
C1_SlotFreeOrHeld ==
    /\ SetOf(freelist) \cup AllHeld \subseteq AllSlots
    /\ \A s \in AllSlots : FreeCount(s) + HolderCount(s) = 1
    /\ (hist # <<>> /\ Last(hist).op = "alloc" /\ Last(hist).ret = FI_SUCCESS)
         => /\ Last(hist).slot \notin SetOf(freelist)
            /\ HolderCount(Last(hist).slot) = 1

\* after a refill and a release, every caller holds a slot and some are free
C1_Witness ==
    /\ Len(chunks) >= 2
    /\ \A t \in Threads : held[t] # {}
    /\ freelist # <<>>
    /\ hist # <<>> /\ Last(hist).op = "free"

(* C2: for a pool initialised by _gnix_sfl_init_ts, under every            *)
(* interleaving of the threads' allocates and releases, refills included,  *)
(* no slot is held by two threads at the same time (and what a thread      *)
(* holds is a slot of the pool)                                            *)
C2_NoSlotHeldTwice ==
    /\ \A t1, t2 \in Threads : t1 # t2 => held[t1] \cap held[t2] = {}
    /\ AllHeld \subseteq AllSlots

\* a refill has happened, a thread that holds a slot is inside its critical
\* section and another thread waits for the lock
C2_Witness ==
    /\ Len(chunks) >= 2
    /\ \E t1, t2 \in Threads :
        /\ t1 # t2
        /\ lock = t1 /\ held[t1] # {} /\ held[t2] # {}
        /\ pc[t2] = "a_acquire"

(* C3: after any number of exhaustion-triggered refills the standing       *)
(* refill size is at most max_refill_size (and it never decreases from one *)
(* refill to the next).  Stated for the states after at least one such     *)
(* refill.                                                                 *)
C3_RefillSizeCapped ==
    Len(chunks) >= 2 => refill_size <= max_refill_size

\* the second half of C3, which the code satisfies in the range of the model
C3_RefillSizeNonDecreasing == [][refill_size' >= refill_size]_vars

(* C4: after every successful refill triggered by an allocate, the new     *)
(* standing refill size is min(previous refill size * growth_factor,       *)
(* max_refill_size)                                                        *)
C4_RefillSizeIsMin ==
    [][Len(chunks') = Len(chunks) + 1
         => refill_size' = Min(refill_size * growth_factor, max_refill_size)]_vars

\* the second half of C4: the refill done by init leaves the refill size as
\* init resolved it
C4_InitKeepsRefillSize ==
    Len(chunks) = 1 => refill_size = ResolvedR

(* C5: when the bulk allocation of a refill fails, allocate returns        *)
(* -FI_ENOMEM and leaves the free list, the chunk list, the standing       *)
(* refill size and the slots held unchanged; the pool stays usable: the    *)
(* allocate after a release that follows the failure returns the slot      *)
(* released, and the allocate that follows the failure and whose bulk      *)
(* allocation succeeds returns a slot                                      *)
C5_FailedRefillStep ==
    (Returned("alloc") /\ Last(hist').calloc = "fail")
      => /\ Last(hist').ret = -FI_ENOMEM
         /\ Last(hist').slot = NoSlot
         /\ UNCHANGED <<freelist, chunks, refill_size, held>>

C5_ReleaseThenAllocStep ==
    (/\ Len(hist) = 2
     /\ hist[1].op = "alloc" /\ hist[1].calloc = "fail"
     /\ hist[2].op = "free"
     /\ Returned("alloc"))
      => Last(hist').ret = FI_SUCCESS /\ Last(hist').slot = hist[2].slot

C5_AllocAfterFailure ==
    (/\ Len(hist) = 2
     /\ hist[1].op = "alloc" /\ hist[1].calloc = "fail"
     /\ hist[2].op = "alloc" /\ hist[2].calloc = "ok")
      => hist[2].ret = FI_SUCCESS /\ hist[2].slot \in AllSlots

C5_UsableAfterFailedRefill ==
    /\ []C5_AllocAfterFailure
    /\ [][C5_FailedRefillStep]_vars
    /\ [][C5_ReleaseThenAllocStep]_vars

\* what the code does satisfy: while the refill size is positive, a failed
\* refill changes nothing and every allocate that finds a free slot, or
\* whose bulk allocation succeeds, returns a slot
C5_StillUsable ==
    \A i \in 1..Len(hist) :
        (hist[i].op = "alloc" /\ (hist[i].flen > 0 \/ hist[i].calloc = "ok"))
          => hist[i].ret = FI_SUCCESS /\ hist[i].slot \in AllSlots

C5_FailedRefill ==
    /\ []C5_StillUsable
    /\ [][C5_FailedRefillStep]_vars
    /\ [][C5_ReleaseThenAllocStep]_vars

\* an allocate failed for lack of memory and the next one, whose bulk
\* allocation succeeded, returned a slot
C5_Witness ==
    /\ Len(hist) = 2
    /\ hist[1].op = "alloc" /\ hist[1].ret = -FI_ENOMEM
    /\ hist[2].op = "alloc" /\ hist[2].calloc = "ok" /\ hist[2].ret = FI_SUCCESS

(* C6: in single-threaded use, allocate, release of that slot, allocate    *)
(* with no refill returns from the second allocate the slot just released  *)
C6_Pattern ==
    /\ Len(hist) = 2
    /\ hist[1].op = "alloc" /\ hist[1].ret = FI_SUCCESS
    /\ hist[2].op = "free" /\ hist[2].slot = hist[1].slot
    /\ Returned("alloc") /\ Last(hist').calloc = "none"

C6_ReallocSameSlot ==
    [][C6_Pattern => Last(hist').slot = hist[1].slot]_vars

\* C6 as amended: the second allocate succeeds, and returns the released
\* slot if and only if the free list was empty when the slot was released
C6_ReallocSameSlotIffOnlyFree ==
    [][C6_Pattern =>
        /\ Last(hist').ret = FI_SUCCESS
        /\ Last(hist').slot = hist[1].slot <=> hist[2].flen = 0]_vars

\* allocate, release, allocate on a new pool of one slot: the second
\* allocate returned the slot released
C6_Witness ==
    /\ scen.on /\ Len(scen.tr) = 3
    /\ scen.tr[1].op = "alloc" /\ scen.tr[1].ret = FI_SUCCESS
    /\ scen.tr[2].op = "free" /\ scen.tr[2].slot = scen.tr[1].slot
    /\ scen.tr[2].flen = 0
    /\ scen.tr[3].op = "alloc" /\ scen.tr[3].slot = scen.tr[1].slot
    /\ Len(chunks) = 1

(* C7: allocate creates a new chunk if and only if the free list is empty  *)
(* when it is called                                                       *)
C7_ChunkIffEmpty ==
    [][Returned("alloc")
         => (Len(chunks') = Len(chunks) + 1 <=> freelist = <<>>)]_vars

\* C7 as amended: allocate creates a new chunk, exactly one, if and only if
\* the free list is empty when it is called and the bulk allocation does not
\* fail; and K allocates, the release of the K slots in the order allocated
\* and K allocates leave the pool with its one chunk
C7_ChunkStep ==
    Returned("alloc") =>
        /\ Len(chunks') = Len(chunks) + 1
             <=> (freelist = <<>> /\ Last(hist').ret # -FI_ENOMEM)
        /\ Len(chunks') \in {Len(chunks), Len(chunks) + 1}

C7_ScenarioDone ==
    /\ scen.on
    /\ Len(scen.tr) = 3 * ResolvedK
    /\ scen.tr[ResolvedK + 1].op = "free"

C7_Scenario ==
    C7_ScenarioDone =>
        /\ Len(chunks) = 1
        /\ \A i \in 1..Len(scen.tr) :
             scen.tr[i].ret = FI_SUCCESS /\ scen.tr[i].calloc = "none"
        /\ Cardinality(AllHeld) = ResolvedK

C7_ChunkIffEmptyAndCallocOk == []C7_Scenario /\ [][C7_ChunkStep]_vars

\* the scenario was run to its end on a pool of more than one slot
C7_Witness == C7_ScenarioDone /\ ResolvedK >= 2

(* C8: after init with resolved sizes K and R the first K allocates        *)
(* succeed with K distinct slots and create no chunk; the (K+1)-th         *)
(* allocate performs one refill that adds one chunk and R new slots, and   *)
(* succeeds with a slot distinct from the first K; the standing refill     *)
(* size is then R * growth_factor capped by max_refill_size, when R is     *)
(* below max_refill_size                                                   *)
C8_FirstK ==
    scen.on =>
        /\ \A i \in 1..Min(Len(scen.tr), ResolvedK) :
             /\ scen.tr[i].ret = FI_SUCCESS
             /\ scen.tr[i].calloc = "none"
             /\ scen.tr[i].slot \in AllSlots
             /\ \A j \in 1..(i - 1) : scen.tr[j].slot # scen.tr[i].slot
        /\ Len(scen.tr) <= ResolvedK => Len(chunks) = 1

C8_Over ==
    /\ scen.on
    /\ Len(scen.tr) = ResolvedK + 1
    /\ scen.tr[ResolvedK + 1].op = "alloc"

C8_Refilled ==
    /\ scen.tr[ResolvedK + 1].ret = FI_SUCCESS
    /\ Len(chunks) = 2
    /\ chunks[2] = ResolvedR
    /\ Cardinality(AllSlots) = ResolvedK + ResolvedR
    /\ Len(freelist) = ResolvedR - 1
    /\ scen.tr[ResolvedK + 1].slot \in AllSlots
    /\ \A j \in 1..ResolvedK : scen.tr[j].slot # scen.tr[ResolvedK + 1].slot
    /\ ResolvedR < ResolvedMax
         => refill_size = Min(ResolvedR * ResolvedG, ResolvedMax)

\* the numbers of the claim: refill size 4, growth factor 2, maximum 16
C8_Example == GrowRefillSize(4, 2, 16) = 8

C8_FirstKThenRefill == C8_FirstK /\ (C8_Over => C8_Refilled) /\ C8_Example

\* C8 as amended: the (K+1)-th allocate does so unless its bulk allocation
\* fails; then it returns -FI_ENOMEM and the pool keeps its one chunk
C8_FirstKThenRefillUnlessNoMem ==
    /\ C8_FirstK
    /\ C8_Example
    /\ (C8_Over /\ scen.tr[ResolvedK + 1].calloc # "fail") => C8_Refilled
    /\ (C8_Over /\ scen.tr[ResolvedK + 1].calloc = "fail")
         => /\ scen.tr[ResolvedK + 1].ret = -FI_ENOMEM
            /\ Len(chunks) = 1
            /\ freelist = <<>>

\* the (K+1)-th allocate refilled a pool of two slots and the refill size grew
C8_Witness ==
    /\ C8_Over
    /\ ResolvedK = 2
    /\ scen.tr[3].calloc = "ok"
    /\ refill_size > ResolvedR

(* C9: the number of chunks never decreases: an allocate leaves the chunk  *)
(* list unchanged or adds one chunk to it, a release leaves the chunk list *)
(* and the standing refill size unchanged and only moves the given slot    *)
(* from allocated to free                                                  *)
C9_Step ==
    /\ Len(chunks') >= Len(chunks)
    /\ SubSeq(chunks', 1, Len(chunks)) = chunks
    /\ Returned("alloc") => Len(chunks') \in {Len(chunks), Len(chunks) + 1}
    /\ Returned("free") =>
        LET e == Last(hist').slot
        IN  /\ UNCHANGED <<chunks, refill_size>>
            /\ e \in AllHeld /\ e \notin SetOf(freelist)
            /\ AllHeld' = AllHeld \ {e}
            /\ SetOf(freelist') = SetOf(freelist) \cup {e}
            /\ Len(freelist') = Len(freelist) + 1

C9_ChunksNeverDecrease == [][C9_Step]_vars

\* a release returned on a pool that has grown to three chunks
C9_Witness ==
    /\ Len(chunks) >= 3
    /\ hist # <<>> /\ Last(hist).op = "free"

(* C10: in thread-safe mode, when all threads have finished and every      *)
(* allocated slot is released, the free list has the length it had before  *)
(* the threads started                                                     *)
C10_SameLength == Quiescent => Len(freelist) = ResolvedK

\* C10 as amended: the free list then holds every slot of the pool, each
\* once: its length is the initial length plus the number of slots the
\* refills of the run added, never less than the initial length
C10_AllSlotsFree ==
    Quiescent =>
        /\ Len(freelist) = Cardinality(AllSlots)
        /\ SetOf(freelist) = AllSlots
        /\ Len(freelist) = ResolvedK + SumSeq(Tail(chunks))
        /\ Len(freelist) >= ResolvedK
        /\ Len(chunks) = 1 => Len(freelist) = ResolvedK

\* the threads have finished after a run in which a refill happened
C10_Witness == Quiescent /\ Len(chunks) >= 2 /\ lockUsed

(* C11: _gnix_sfl_destroy gives every chunk the pool acquired to free()    *)
(* exactly once, in the order of the chunk list, and the chunk list is      *)
(* empty when it returns, whether or not callers still hold slots; when     *)
(* fl->ts is set the lock is destroyed after the last chunk was freed       *)
C11_Returned == ~live /\ \A t \in Threads : pc[t] = "idle"

C11_State ==
    /\ live => freed = <<>>
    /\ lockState = "destroyed" => chunks = <<>> /\ ~live
    /\ C11_Returned =>
        /\ chunks = <<>>
        /\ Len(freed) >= 1
        /\ lockState # "init"

\* every step of destroy moves the head of the chunk list to the chunks
\* freed, or nothing; the lock is destroyed by the step that returns
C11_Step ==
    /\ ~live' => freed' \o chunks' = freed \o chunks
    /\ lockState' # lockState =>
        /\ lockState' = "destroyed"
        /\ chunks = <<>> /\ chunks' = <<>>
        /\ C11_Returned'

C11_DestroyFreesAll == []C11_State /\ [][C11_Step]_vars

\* destroy has returned on a thread-safe pool of three chunks while a
\* caller holds slots
C11_Witness ==
    /\ C11_Returned
    /\ Len(freed) >= 3
    /\ AllHeld # {}
    /\ lockState = "destroyed"

(* C12: when refill_size * growth_factor leaves the int range or exceeds   *)
(* max_refill_size, the refill size after the refill is max_refill_size:    *)
(* never above it, never zero or negative, for growth_factor >= 2           *)
C12_ProductFits == refill_size <= INT_MAX \div growth_factor

C12_Step ==
    (/\ Len(chunks') = Len(chunks) + 1
     /\ growth_factor >= 2
     /\ refill_size > 0
     /\ ~C12_ProductFits \/ refill_size * growth_factor > max_refill_size)
      => /\ refill_size' = max_refill_size
         /\ refill_size' > 0

C12_ClampsToMax == [][C12_Step]_vars

(* C13: in thread-safe mode a call holds the lock exactly from its        *)
(* acquire to its return: across the emptiness check, the refill and the    *)
(* removal, or the insertion; the free list, the chunk list and the refill  *)
(* size change only in steps of the thread holding the lock; the lock is    *)
(* released by the returning step on every path (success, -FI_ENOMEM,       *)
(* -FI_EAGAIN); at most one thread is in a critical section                 *)
\* the positions between the acquire and the return of a call; a thread
\* stopped by assert(n > 0) inside the refill is at such a position for good
C13_Critical ==
    {"a_check", "a_read", "a_remove", "a_release", "f_insert", "f_release",
     "aborted"}

\* the process was aborted inside a refill of size 0: the thread holds the
\* lock and no call of another thread is past its acquire
C13_AbortedInside ==
    \E t1, t2 \in Threads :
        /\ pc[t1] = "aborted" /\ lock = t1 /\ refill_size = 0
        /\ pc[t2] \in {"a_acquire", "f_acquire"}

C13_State ==
    /\ \A t \in Threads : pc[t] \in C13_Critical <=> lock = t
    /\ Cardinality({t \in Threads : pc[t] \in C13_Critical}) <= 1
    /\ \A t \in Threads :
        /\ pc[t] \in {"idle", "a_acquire", "f_acquire"} => lock # t
        /\ ret[t] \in {FI_SUCCESS, -FI_ENOMEM, -FI_EAGAIN}
        /\ ret[t] # FI_SUCCESS => pc[t] = "a_release"

C13_Step ==
    /\ <<freelist, chunks, refill_size, held>>'
         # <<freelist, chunks, refill_size, held>>
        => \E t \in Threads : lock = t /\ lock' = t /\ pc'[t] # pc[t]
    /\ \A t \in Threads :
        (pc[t] # "idle" /\ pc'[t] = "idle")
          => lock = t /\ lock' = NoThread /\ pc[t] \in {"a_release", "f_release"}

C13_LockHeldAcrossCall == []C13_State /\ [][C13_Step]_vars

\* a thread whose refill of size 0 left the free list empty is about to
\* return -FI_EAGAIN and still holds the lock, while another thread, which
\* holds a slot, waits for the lock to release it
C13_Witness ==
    \E t1, t2 \in Threads :
        /\ pc[t1] = "a_release" /\ ret[t1] = -FI_EAGAIN /\ lock = t1
        /\ pc[t2] = "f_acquire"
        /\ refill_size = 0

\* the same on the path of -FI_ENOMEM
C13_NoMemExit ==
    \E t1, t2 \in Threads :
        /\ pc[t1] = "a_release" /\ ret[t1] = -FI_ENOMEM /\ lock = t1
        /\ pc[t2] = "f_acquire"
        /\ Len(chunks) >= 2

(* C14: a pool initialised by _gnix_sfl_init performs no lock operation    *)
(* in any later allocate, release or destroy, whatever fl->ts held before   *)
(* init.  Such a pool is one whose lock this init did not initialise.       *)
C14_NoLockOps ==
    lockState \in {"none", "stale"} => ~lockUsed

\* what the code does satisfy: the calls on such a pool perform lock
\* operations if and only if fl->ts was not 0 before init
C14_NoLockOpsWhenZeroed ==
    (lockState \in {"none", "stale"} /\ ts = 0) => ~lockUsed

(* C15: in single-threaded use allocate never returns -FI_EAGAIN: every   *)
(* allocate returns a slot or -FI_ENOMEM                                    *)
C15_NoEagain ==
    \A i \in 1..Len(hist) :
        hist[i].op = "alloc" =>
            \/ hist[i].ret = FI_SUCCESS /\ hist[i].slot \in AllSlots
            \/ hist[i].ret = -FI_ENOMEM

\* what the code does satisfy: -FI_EAGAIN is returned only when the refill
\* size the refill was called with was not positive
C15_EagainOnlyIfNotPositive ==
    [][(Returned("alloc") /\ Last(hist').ret = -FI_EAGAIN)
         => refill_size <= 0 /\ Last(hist').calloc = "ok"]_vars

(* C16: after init refill_size, growth_factor and max_refill_size are     *)
(* positive: each is the argument when that is not 0 and the default        *)
(* otherwise, the default of max_refill_size being the resolved initial     *)
(* size; with all arguments 0 the pool has GNIX_SFL_INIT_SIZE free slots in *)
(* one chunk and that many allocates succeed without a refill               *)
C16_NoCallYet == scen.on /\ scen.tr = <<>>

C16_AllDefault ==
    /\ args.init_size = 0 /\ args.refill_size = 0
    /\ args.growth_factor = 0 /\ args.max_refill_size = 0

C16_DefaultsApplied ==
    /\ growth_factor > 0
    /\ growth_factor = (IF args.growth_factor # 0 THEN args.growth_factor
                        ELSE GNIX_SFL_GROWTH_FACTOR)
    /\ max_refill_size > 0
    /\ max_refill_size =
         (IF args.max_refill_size # 0 THEN args.max_refill_size
          ELSE IF args.init_size # 0 THEN args.init_size
          ELSE GNIX_SFL_INIT_SIZE)
    /\ C16_NoCallYet =>
        /\ refill_size > 0
        /\ refill_size = (IF args.refill_size # 0 THEN args.refill_size
                          ELSE GNIX_SFL_INIT_REFILL_SIZE)
        /\ chunks = <<ResolvedK>>
        /\ Len(freelist) = ResolvedK
    /\ (C16_NoCallYet /\ C16_AllDefault) =>
        /\ chunks = <<GNIX_SFL_INIT_SIZE>>
        /\ Len(freelist) = GNIX_SFL_INIT_SIZE
        /\ Cardinality(SetOf(freelist)) = GNIX_SFL_INIT_SIZE
        /\ max_refill_size = GNIX_SFL_INIT_SIZE
    /\ (C16_AllDefault /\ scen.on /\ Len(scen.tr) <= GNIX_SFL_INIT_SIZE) =>
        /\ Len(chunks) = 1
        /\ \A i \in 1..Len(scen.tr) :
             /\ scen.tr[i].op = "alloc"
             /\ scen.tr[i].ret = FI_SUCCESS
             /\ scen.tr[i].calloc = "none"
        /\ Len(freelist) = GNIX_SFL_INIT_SIZE - Len(scen.tr)

\* on a pool made with all arguments 0, the allocates that empty the initial
\* fill have returned
C16_Witness ==
    /\ C16_AllDefault
    /\ scen.on /\ Len(scen.tr) = GNIX_SFL_INIT_SIZE
    /\ freelist = <<>> /\ Len(chunks) = 1

(* C17: the free list is first-in first-out.  An allocate returns the     *)
(* slot at the head, the one longest in the list, and leaves the others in  *)
(* their order; the slots of a refill enter in block order; a release puts  *)
(* the slot behind every slot that is free at that moment, so it is         *)
(* returned only after all of them                                          *)
C17_Step ==
    /\ (Returned("alloc") /\ Last(hist').ret = FI_SUCCESS /\ freelist # <<>>)
        => /\ Last(hist').slot = freelist[1]
           /\ freelist' = Tail(freelist)
    /\ (Returned("alloc") /\ Last(hist').ret = FI_SUCCESS /\ freelist = <<>>)
        => /\ Last(hist').slot = <<Len(chunks) + 1, 1>>
           /\ freelist' = [i \in 1..(refill_size - 1) |-> <<Len(chunks) + 1, i + 1>>]
    /\ Returned("free")
        => /\ freelist' = freelist \o <<Last(hist').slot>>
           /\ \A i \in 1..Len(freelist) : freelist'[i] = freelist[i]

\* a slot released behind k free slots is at place k - j + 1 after j
\* allocates without refill: seen on the two last calls
C17_Order ==
    (/\ Len(hist) = 2
     /\ hist[1].op = "free" /\ hist[1].flen >= 1
     /\ hist[2].op = "alloc")
      => /\ hist[2].ret = FI_SUCCESS /\ hist[2].calloc = "none"
         /\ hist[2].slot # hist[1].slot
         /\ freelist # <<>> /\ freelist[hist[1].flen] = hist[1].slot

C17_Fifo == []C17_Order /\ [][C17_Step]_vars

\* a slot was released behind two free slots of a refill, and the next
\* allocate returned the older of them
C17_Witness ==
    /\ Len(hist) = 2
    /\ hist[1].op = "free" /\ hist[1].flen = 2
    /\ hist[2].op = "alloc" /\ hist[2].slot # hist[1].slot
    /\ Len(chunks) >= 2
    /\ Len(freelist) = 2 /\ freelist[2] = hist[1].slot

(* C18: in thread-safe mode, with fair scheduling and a fair lock, every  *)
(* thread that has started an allocate or a release returns from it; the    *)
(* thread that holds the lock can always take its next step, whatever the   *)
(* other threads do, and a thread waits only for the lock                   *)
C18_NoWait ==
    \A t \in Threads :
        /\ lock = t => ENABLED Running(t)
        /\ (pc[t] \in {"a_acquire", "f_acquire"} /\ lock = NoThread)
             => ENABLED Waiting(t)

C18_Returns ==
    \A t \in Threads : (pc[t] # "idle") ~> (pc[t] = "idle")

C18_EveryCallReturns == []C18_NoWait /\ C18_Returns

\* a thread waits for the lock while the holder refills the empty pool
C18_Witness ==
    \E t1, t2 \in Threads :
        /\ pc[t1] = "a_acquire"
        /\ lock = t2 /\ pc[t2] = "a_check" /\ freelist = <<>>
        /\ held[t2] # {}

(* C19: slot conservation.  In every state the number of free slots plus  *)
(* the number of slots held equals the sum of the sizes n of the refills    *)
(* that succeeded, the one of init included; a refill of size n that        *)
(* succeeds adds one chunk and n new, distinct slots of no earlier chunk;   *)
(* no other step creates or loses a slot                                    *)
C19_Slots == SetOf(freelist) \cup AllHeld

C19_State ==
    /\ Len(freelist) + Cardinality(AllHeld) = SumSeq(chunks)
    /\ Cardinality(C19_Slots) = SumSeq(chunks)
    /\ C19_Slots = AllSlots

C19_Step ==
    /\ Len(chunks') \in {Len(chunks), Len(chunks) + 1}
    /\ Len(chunks') = Len(chunks) + 1 =>
        /\ SubSeq(chunks', 1, Len(chunks)) = chunks
        /\ Last(chunks') = refill_size
        /\ C19_Slots \subseteq C19_Slots'
        /\ Cardinality(C19_Slots' \ C19_Slots) = refill_size
        /\ \A sl \in C19_Slots' \ C19_Slots : sl[1] = Len(chunks) + 1
        /\ \A sl \in C19_Slots : sl[1] <= Len(chunks)
    /\ Len(chunks') = Len(chunks) =>
        /\ C19_Slots' = C19_Slots
        /\ Len(freelist') + Cardinality(AllHeld')
             = Len(freelist) + Cardinality(AllHeld)

C19_SlotConservation == []C19_State /\ [][C19_Step]_vars

(* C20: in thread-safe mode, while the refill size is positive, no        *)
(* allocate returns -FI_EAGAIN under any interleaving: from the emptiness   *)
(* check and the refill to the removal the thread holds the lock, the free  *)
(* list stays non-empty and its head stays the slot the thread read         *)
C20_NoEagainTs ==
    /\ refill_size > 0
    /\ \A t \in Threads :
        /\ ret[t] # -FI_EAGAIN
        /\ pc[t] \in {"a_read", "a_remove"} => lock = t /\ freelist # <<>>
        /\ pc[t] = "a_remove" => de[t] = Head(freelist)
        /\ (pc[t] = "a_release" /\ ret[t] = FI_SUCCESS) => de[t] \in held[t]

\* a thread has refilled the empty pool and not yet taken its slot, while
\* another thread waits to allocate
C20_Witness ==
    \E t1, t2 \in Threads :
        /\ pc[t1] = "a_read" /\ Len(chunks) >= 2
        /\ \A i \in 1..Len(freelist) : freelist[i][1] = Len(chunks)
        /\ pc[t2] = "a_acquire"

====
